---- MODULE Spec2Model ----
(***************************************************************************)
(* AMI UCP BIOS Extractor (AMI_UCP_Extract.py): the container locator      *)
(* get_ami_ucp, the module enumerator get_uaf_mod, the container walk      *)
(* ucp_extract and the module extractor uaf_extract.                       *)
(*                                                                         *)
(* Bytes are the integers 0..255 and a buffer is a sequence of bytes.      *)
(* Decoded text (tags, names, naming-list records) is a sequence of code   *)
(* points; file-system paths are strings.                                  *)
(***************************************************************************)
EXTENDS Integers, Sequences, FiniteSets, TLC

VARIABLES
    loc,     \* get_ami_ucp under SpecLocate: its loop and its result
    enum,    \* get_uaf_mod under SpecEnum: its loop and its result
    nm,      \* the naming of one module under SpecName
    pay,     \* the payload of one module under SpecPayload
    pc,      \* Spec: the statement of ucp_extract / uaf_extract that runs next
    stack,   \* Spec: the ucp_extract calls in progress, the innermost last
    fs,      \* Spec: the files of the output tree, path |-> content
    dirs,    \* Spec: the directories of the output tree
    trace,   \* Spec: the file operations and calls made so far
    input    \* Spec: the modules the input container was built from

mainVars == <<pc, stack, fs, dirs, trace, input>>

vars == <<loc, enum, nm, pay, pc, stack, fs, dirs, trace, input>>

Idle == [pc |-> "idle"]

MainIdle ==
    /\ pc = "idle" /\ stack = <<>> /\ fs = <<>> /\ dirs = {} /\ trace = <<>>
    /\ input = <<>>

(***************************************************************************)
(* Bytes, text and Python slicing                                          *)
(***************************************************************************)

Min(a, b) == IF a < b THEN a ELSE b

Max(a, b) == IF a < b THEN b ELSE a

\* The printable ASCII characters in code point order: 32..33, 35..95 and
\* 97..126 (the double quote, 34, and the backtick, 96, are left out: no
\* literal of the source and no input of the model holds them).
Ascii32 == " !"

Ascii35 == "#$%&'()*+,-./0123456789:;<=>?@ABCDEFGHIJKLMNOPQRSTUVWXYZ[\\]^_"

Ascii97 == "abcdefghijklmnopqrstuvwxyz{|}~"

Printable == (32..126) \ {34, 96}

Chr(n) ==
    IF n < 34 THEN SubSeq(Ascii32, n - 31, n - 31)
    ELSE IF n < 96 THEN SubSeq(Ascii35, n - 34, n - 34)
    ELSE SubSeq(Ascii97, n - 96, n - 96)

Ord(c) == CHOOSE n \in Printable : Chr(n) = c

\* The code points of a printable literal of the source, e.g. S("@NAL").
S(str) == [i \in 1..Len(str) |-> Ord(SubSeq(str, i, i))]

\* buffer[lo:hi] for 0 <= lo, 0 <= hi: Python clamps both ends to the length.
PySlice(s, lo, hi) == SubSeq(s, Min(lo, Len(s)) + 1, Min(hi, Len(s)))

\* buffer[lo:]
PyFrom(s, lo) == PySlice(s, lo, Len(s))

Zeros(n) == [i \in 1..n |-> 0]

\* int.from_bytes(b, 'little')
RECURSIVE FromLE(_)
FromLE(b) == IF b = <<>> THEN 0 ELSE Head(b) + 256 * FromLE(Tail(b))

\* struct.pack('<I', n)
LE32(n) == <<n % 256, (n \div 256) % 256, (n \div 65536) % 256, (n \div 16777216) % 256>>

RECURSIVE Concat(_)
Concat(ss) == IF ss = <<>> THEN <<>> ELSE Head(ss) \o Concat(Tail(ss))

(***************************************************************************)
(* Structure layouts                                                       *)
(***************************************************************************)

UAF_HDR_LEN == 16

UAF_MOD_LEN == 8

\* The container signature, and the byte every module tag starts with.
TAG_UAF == S("@UAF")

AT == 64

\* 16 header bytes: ModuleTag, ModuleSize, Checksum, Unknown0, Unknown1, Reserved.
UafHeaderBytes(tag, size) == tag \o LE32(size) \o Zeros(8)

(***************************************************************************)
(* Container Locator: get_ami_ucp                                          *)
(***************************************************************************)

\* The 32-bit size field of the header at offset start.
SizeField(buffer, start) == FromLE(PySlice(buffer, start + 4, start + 8))

\* PAT_AMI_UCP (common.patterns) at offset i: the tag literal followed by a
\* plausible size field, i.e. one that is not zero (a container's size counts
\* its own header).
PAT_AMI_UCP_match(buffer, i) ==
    /\ i + 8 <= Len(buffer)
    /\ PySlice(buffer, i, i + 4) = TAG_UAF
    /\ SizeField(buffer, i) > 0

\* PAT_AMI_UCP.finditer(buffer): the starts of the matches, left to right,
\* each search resuming where the last match ended.
RECURSIVE PAT_AMI_UCP_finditer(_, _)
PAT_AMI_UCP_finditer(buffer, i) ==
    LET ahead == {j \in i..(Len(buffer) - 8) : PAT_AMI_UCP_match(buffer, j)}
    IN  IF ahead = {} THEN <<>>
        ELSE LET start == CHOOSE j \in ahead : \A k \in ahead : j <= k
             IN  <<start>> \o PAT_AMI_UCP_finditer(buffer, start + 8)

\* The locals of get_ami_ucp before its loop.
UcpNone == [uaf_len_max |-> 0, uaf_hdr_off |-> 0, uaf_buf_bin |-> <<>>]

\* A loop body that takes every candidate, whatever its size.
ucp_select_last(buffer, st, start) ==
    LET uaf_len_cur == SizeField(buffer, start)
    IN  [uaf_len_max |-> uaf_len_cur, uaf_hdr_off |-> start,
         uaf_buf_bin |-> PySlice(buffer, start, start + uaf_len_cur)]

\* One iteration of the loop of get_ami_ucp, for the match at offset start.
ucp_select(buffer, st, start) ==
    LET uaf_len_cur == SizeField(buffer, start)
    IN  IF uaf_len_cur > st.uaf_len_max
        THEN [uaf_len_max |-> uaf_len_cur, uaf_hdr_off |-> start,
              uaf_buf_bin |-> PySlice(buffer, start, start + uaf_len_cur)]
        ELSE st

RECURSIVE ucp_fold(_, _, _)
ucp_fold(buffer, st, matches) ==
    IF matches = <<>> THEN st
    ELSE ucp_fold(buffer, ucp_select(buffer, st, Head(matches)), Tail(matches))

\* get_ami_ucp(buffer): <<uaf_hdr_off, uaf_buf_bin>>
get_ami_ucp(buffer) ==
    LET st == ucp_fold(buffer, UcpNone, PAT_AMI_UCP_finditer(buffer, 0))
    IN  <<st.uaf_hdr_off, st.uaf_buf_bin>>

(***************************************************************************)
(* Module Enumerator: get_uaf_mod                                          *)
(***************************************************************************)

TAG_NAL == S("@NAL")

\* get_struct (common.struct_ops) succeeds when the whole structure lies in
\* the buffer at the offset, and raises otherwise.
get_struct_fits(buffer, offset, struct_len) ==
    offset < Len(buffer) /\ offset + struct_len <= Len(buffer)

\* The value of a ctypes char array field ends at its first NUL.
RECURSIVE CharArrayValue(_)
CharArrayValue(b) ==
    IF b = <<>> \/ Head(b) = 0 THEN <<>> ELSE <<Head(b)>> \o CharArrayValue(Tail(b))

\* get_struct(buffer, uaf_off, UafHeader): the fields the extractor reads.
UafHeader(buffer, uaf_off) ==
    [ModuleTag  |-> CharArrayValue(PySlice(buffer, uaf_off, uaf_off + 4)),
     ModuleSize |-> SizeField(buffer, uaf_off)]

\* bytes.decode('utf-8') of ASCII bytes: the same code points.  (The model's
\* only byte above 127 is 255, which no UTF-8 text holds.)
IsAscii(b) == \A i \in DOMAIN b : b[i] < 128

\* One evaluation of the while condition of get_uaf_mod, and of its body when
\* the condition holds:
\*   raise  buffer[uaf_off] is out of range, get_struct raises, or the tag
\*          does not decode;
\*   exit   the byte at uaf_off is not '@';
\*   break  the body ran and the new offset is at or past the end;
\*   next   the body ran and the loop goes on.
uaf_walk(buffer, uaf_off, uaf_all) ==
    IF uaf_off >= Len(buffer)
    THEN [kind |-> "raise", uaf_off |-> uaf_off, uaf_all |-> uaf_all]
    ELSE IF buffer[uaf_off + 1] # AT
    THEN [kind |-> "exit", uaf_off |-> uaf_off, uaf_all |-> uaf_all]
    ELSE IF ~get_struct_fits(buffer, uaf_off, UAF_HDR_LEN)
            \/ ~IsAscii(UafHeader(buffer, uaf_off).ModuleTag)
    THEN [kind |-> "raise", uaf_off |-> uaf_off, uaf_all |-> uaf_all]
    ELSE LET uaf_hdr == UafHeader(buffer, uaf_off)
             uaf_tag == uaf_hdr.ModuleTag
             off == uaf_off + uaf_hdr.ModuleSize
         IN  [kind |-> IF off >= Len(buffer) THEN "break" ELSE "next",
              uaf_off |-> off,
              uaf_all |-> Append(uaf_all, [tag |-> uaf_tag, off |-> uaf_off, hdr |-> uaf_hdr])]

\* list.pop(i) then list.insert(at, item), 0-based; insert clamps at the end.
PopInsert(l, i, at) ==
    LET item == l[i + 1]
        rest == SubSeq(l, 1, i) \o SubSeq(l, i + 2, Len(l))
        k    == Min(at, Len(rest))
    IN  SubSeq(rest, 1, k) \o <<item>> \o SubSeq(rest, k + 1, Len(rest))

NalIndexes(uaf_all) == {i \in DOMAIN uaf_all : uaf_all[i].tag = TAG_NAL}

FirstNal(uaf_all) == CHOOSE i \in NalIndexes(uaf_all) : \A j \in NalIndexes(uaf_all) : i <= j

\* A reordering that puts the naming list at the head of the list.
nal_reorder_head(uaf_all) ==
    IF NalIndexes(uaf_all) = {} THEN uaf_all
    ELSE PopInsert(uaf_all, FirstNal(uaf_all) - 1, 0)

\* The for loop that ends get_uaf_mod: the first @NAL module moves to index 1.
nal_reorder(uaf_all) ==
    IF NalIndexes(uaf_all) = {} THEN uaf_all
    ELSE PopInsert(uaf_all, FirstNal(uaf_all) - 1, 1)

(***************************************************************************)
(* Tag Registry                                                            *)
(***************************************************************************)

\* UAF_TAG_DICT: tag, default file name, content kind (the description, which
\* is only printed, is left out).
UAF_TAG_ROWS ==
    <<
        <<"@3FI", "HpBiosUpdate32.efi", "">>,
        <<"@3S2", "HpBiosUpdate32.s12", "">>,
        <<"@3S4", "HpBiosUpdate32.s14", "">>,
        <<"@3S9", "HpBiosUpdate32.s09", "">>,
        <<"@3SG", "HpBiosUpdate32.sig", "">>,
        <<"@AMI", "UCP_Nested.bin", "">>,
        <<"@B12", "BiosMgmt.s12", "">>,
        <<"@B14", "BiosMgmt.s14", "">>,
        <<"@B32", "BiosMgmt32.s12", "">>,
        <<"@B34", "BiosMgmt32.s14", "">>,
        <<"@B39", "BiosMgmt32.s09", "">>,
        <<"@B3E", "BiosMgmt32.efi", "">>,
        <<"@BM9", "BiosMgmt.s09", "">>,
        <<"@BME", "BiosMgmt.efi", "">>,
        <<"@CKV", "Check_Version.txt", "Text">>,
        <<"@CMD", "AFU_Command.txt", "Text">>,
        <<"@CPM", "AC_Message.txt", "">>,
        <<"@DCT", "DevCon32.exe", "">>,
        <<"@DCX", "DevCon64.exe", "">>,
        <<"@DFE", "HpDevFwUpdate.efi", "">>,
        <<"@DFS", "HpDevFwUpdate.s12", "">>,
        <<"@DIS", "Command_Status.bin", "">>,
        <<"@ENB", "ENBG64.exe", "">>,
        <<"@INS", "Insyde_Nested.bin", "">>,
        <<"@M32", "HpBiosMgmt32.s12", "">>,
        <<"@M34", "HpBiosMgmt32.s14", "">>,
        <<"@M39", "HpBiosMgmt32.s09", "">>,
        <<"@M3I", "HpBiosMgmt32.efi", "">>,
        <<"@MEC", "FWUpdLcl.txt", "Text">>,
        <<"@MED", "FWUpdLcl_DOS.exe", "">>,
        <<"@MET", "FWUpdLcl_WIN32.exe", "">>,
        <<"@MFI", "HpBiosMgmt.efi", "">>,
        <<"@MS2", "HpBiosMgmt.s12", "">>,
        <<"@MS4", "HpBiosMgmt.s14", "">>,
        <<"@MS9", "HpBiosMgmt.s09", "">>,
        <<"@NAL", "UAF_List.txt", "">>,
        <<"@OKM", "OK_Message.txt", "">>,
        <<"@PFC", "BGT_Command.txt", "Text">>,
        <<"@R3I", "CryptRSA32.efi", "">>,
        <<"@RFI", "CryptRSA.efi", "">>,
        <<"@UAF", "UCP_Main.bin", "">>,
        <<"@UFI", "HpBiosUpdate.efi", "">>,
        <<"@UII", "UCP_Info.txt", "">>,
        <<"@US2", "HpBiosUpdate.s12", "">>,
        <<"@US4", "HpBiosUpdate.s14", "">>,
        <<"@US9", "HpBiosUpdate.s09", "">>,
        <<"@USG", "HpBiosUpdate.sig", "">>,
        <<"@VER", "OEM_Version.txt", "Text">>,
        <<"@VXD", "amifldrv.vxd", "">>,
        <<"@W32", "amifldrv32.sys", "">>,
        <<"@W64", "amifldrv64.sys", "">>
    >>

UAF_TAG_DICT ==
    [tag \in {S(UAF_TAG_ROWS[i][1]) : i \in DOMAIN UAF_TAG_ROWS} |->
        LET i == CHOOSE k \in DOMAIN UAF_TAG_ROWS : S(UAF_TAG_ROWS[k][1]) = tag
        IN  [name |-> S(UAF_TAG_ROWS[i][2]), kind |-> UAF_TAG_ROWS[i][3]]]

(***************************************************************************)
(* Module Extractor: the name of a module (uaf_extract, lines 250-261)     *)
(***************************************************************************)

\* str.startswith
StartsWith(s, prefix) == Len(s) >= Len(prefix) /\ SubSeq(s, 1, Len(prefix)) = prefix

EmptyDict == [t \in {} |-> <<>>]

\* A naming that asks the built-in table before the naming list.
uaf_name_builtin_first(uaf_tag, nal_dict) ==
    IF uaf_tag \in DOMAIN UAF_TAG_DICT THEN UAF_TAG_DICT[uaf_tag].name
    ELSE IF uaf_tag \in DOMAIN nal_dict THEN nal_dict[uaf_tag]
    ELSE uaf_tag

\* uaf_name: the if/elif chain of uaf_extract.
uaf_name_of(uaf_tag, nal_dict) ==
    IF uaf_tag \in DOMAIN nal_dict THEN nal_dict[uaf_tag]
    ELSE IF uaf_tag \in DOMAIN UAF_TAG_DICT THEN UAF_TAG_DICT[uaf_tag].name
    ELSE IF uaf_tag = S("@ROM") THEN S("BIOS.bin")
    ELSE IF StartsWith(uaf_tag, S("@R0")) THEN S("BIOS_0") \o PyFrom(uaf_tag, 3) \o S(".bin")
    ELSE IF StartsWith(uaf_tag, S("@S0")) THEN S("BIOS_0") \o PyFrom(uaf_tag, 3) \o S(".sig")
    ELSE IF StartsWith(uaf_tag, S("@DR")) THEN S("DROM_0") \o PyFrom(uaf_tag, 3) \o S(".bin")
    ELSE IF StartsWith(uaf_tag, S("@DS")) THEN S("DROM_0") \o PyFrom(uaf_tag, 3) \o S(".sig")
    ELSE IF StartsWith(uaf_tag, S("@EC")) THEN S("EC_0") \o PyFrom(uaf_tag, 3) \o S(".bin")
    ELSE IF StartsWith(uaf_tag, S("@ME")) THEN S("ME_0") \o PyFrom(uaf_tag, 3) \o S(".bin")
    ELSE uaf_tag

\* uaf_fext = '' if uaf_name != uaf_tag else '.bin'
uaf_fext_of(uaf_name, uaf_tag) == IF uaf_name # uaf_tag THEN <<>> ELSE S(".bin")

(***************************************************************************)
(* Module Extractor: the payload of a module (uaf_extract, lines 236-248   *)
(* and 294-303)                                                            *)
(***************************************************************************)

\* get_struct(buffer, offset, UafModule)
UafModule(buffer, offset) ==
    [CompressSize |-> FromLE(PySlice(buffer, offset, offset + 4)),
     OriginalSize |-> FromLE(PySlice(buffer, offset + 4, offset + 8))]

\* uaf_data_all, uaf_data_mod, uaf_data_raw as sliced at lines 236-240
uaf_data_all_of(buffer, uaf_off, uaf_hdr) ==
    PySlice(buffer, uaf_off, uaf_off + uaf_hdr.ModuleSize)

uaf_data_mod_of(buffer, uaf_off, uaf_hdr) ==
    PyFrom(uaf_data_all_of(buffer, uaf_off, uaf_hdr), UAF_HDR_LEN)

uaf_data_raw_of(buffer, uaf_off, uaf_hdr) ==
    PyFrom(uaf_data_mod_of(buffer, uaf_off, uaf_hdr), UAF_MOD_LEN)

\* is_comp = uaf_mod.CompressSize != uaf_mod.OriginalSize
is_comp_of(uaf_mod) == uaf_mod.CompressSize # uaf_mod.OriginalSize

\* An adjustment that never pads a short compressed payload.
uaf_adjust_unpadded(uaf_mod, uaf_data_mod, uaf_data_raw) ==
    IF is_comp_of(uaf_mod)
    THEN PySlice(uaf_data_mod, 0, UAF_MOD_LEN) \o uaf_data_raw
    ELSE PySlice(uaf_data_raw, 0, uaf_mod.OriginalSize)

\* Lines 294-303: the raw data adjusted for extraction.
uaf_adjust(uaf_mod, uaf_data_mod, uaf_data_raw) ==
    IF is_comp_of(uaf_mod)
    THEN IF uaf_mod.CompressSize > Len(uaf_data_raw)
         THEN PySlice(uaf_data_mod, 0, UAF_MOD_LEN) \o uaf_data_raw
                 \o Zeros(uaf_mod.CompressSize - Len(uaf_data_raw))
         ELSE PySlice(uaf_data_mod, 0, UAF_MOD_LEN) \o uaf_data_raw
    ELSE PySlice(uaf_data_raw, 0, uaf_mod.OriginalSize)

(***************************************************************************)
(* Text and path operations used by uaf_extract                            *)
(***************************************************************************)

\* bytes.decode('utf-8', 'ignore') of ASCII bytes and lone 255 bytes: the
\* bytes that are no UTF-8 are dropped.
DecodeIgnore(b) == SelectSeq(b, LAMBDA x : x < 128)

\* The ASCII characters str.strip() removes.
Whitespace == (9..13) \cup (28..32)

RECURSIVE LStrip(_)
LStrip(t) == IF t # <<>> /\ Head(t) \in Whitespace THEN LStrip(Tail(t)) ELSE t

RECURSIVE RStrip(_)
RStrip(t) ==
    IF t # <<>> /\ t[Len(t)] \in Whitespace THEN RStrip(SubSeq(t, 1, Len(t) - 1)) ELSE t

\* The index of the first sep in t, 0 when there is none.
FindChar(t, sep) ==
    IF \E i \in DOMAIN t : t[i] = sep
    THEN CHOOSE i \in DOMAIN t : t[i] = sep /\ \A j \in 1..(i - 1) : t[j] # sep
    ELSE 0

\* str.split(sep)
RECURSIVE Split(_, _)
Split(t, sep) ==
    LET i == FindChar(t, sep)
    IN  IF i = 0 THEN <<t>>
        ELSE <<SubSeq(t, 1, i - 1)>> \o Split(SubSeq(t, i + 1, Len(t)), sep)

\* os.path.basename (posixpath): what follows the last '/'.
RECURSIVE Basename(_)
Basename(t) ==
    LET i == FindChar(t, Ord("/"))
    IN  IF i = 0 THEN t ELSE Basename(SubSeq(t, i + 1, Len(t)))

\* The lines of a decoded @NAL payload (line 358).
nal_info_of(uaf_data_raw) ==
    Split(RStrip(LStrip(SelectSeq(DecodeIgnore(uaf_data_raw), LAMBDA x : x # 13))), 10)

\* Lines 363-368: the loop over the records.  info.split(':', 1) of a record
\* without ':' gives one value, and unpacking it into two raises ValueError:
\* ok is FALSE, and nal_dict is the dictionary as the loop left it.
RECURSIVE nal_records(_, _)
nal_records(nal_info, nal_dict) ==
    IF nal_info = <<>> THEN [ok |-> TRUE, nal_dict |-> nal_dict]
    ELSE LET info == Head(nal_info)
             i    == FindChar(info, Ord(":"))
         IN  IF i = 0 THEN [ok |-> FALSE, nal_dict |-> nal_dict]
             ELSE LET info_tag == SubSeq(info, 1, i - 1)
                      info_val == SubSeq(info, i + 1, Len(info))
                  IN  nal_records(Tail(nal_info),
                          [t \in DOMAIN nal_dict \cup {info_tag} |->
                              IF t = info_tag THEN Basename(info_val) ELSE nal_dict[t]])

\* Line 357: the payload is taken for a naming list.
is_nal(uaf_tag, uaf_data_raw) ==
    /\ Len(uaf_data_raw) >= 5
    /\ uaf_tag = TAG_NAL
    /\ uaf_data_raw[1] = AT
    /\ uaf_data_raw[5] = Ord(":")

\* safe_name (common.path_ops): a file-system-safe name; every run of
\* characters that are unsafe in a file name becomes one underscore.
UnsafeChars == {Ord("\\"), Ord("/"), Ord(":"), Ord("*"), Ord("?"), Ord("<"), Ord(">"), Ord("|")}

IsSafeChar(c) == c \in Printable /\ c \notin UnsafeChars

RECURSIVE safe_name(_)
safe_name(name) ==
    IF name = <<>> THEN ""
    ELSE IF IsSafeChar(Head(name)) THEN Chr(Head(name)) \o safe_name(Tail(name))
    ELSE IF Len(name) > 1 /\ ~IsSafeChar(name[2]) THEN safe_name(Tail(name))
    ELSE "_" \o safe_name(Tail(name))

\* str.startswith on paths
IsPrefix(prefix, path) ==
    Len(path) >= Len(prefix) /\ SubSeq(path, 1, Len(prefix)) = prefix

\* str.replace(old, new): every occurrence, left to right.
RECURSIVE StrReplace(_, _, _)
StrReplace(str, old, new) ==
    IF Len(str) < Len(old) THEN str
    ELSE IF IsPrefix(old, str)
         THEN new \o StrReplace(SubSeq(str, Len(old) + 1, Len(str)), old, new)
         ELSE SubSeq(str, 1, 1) \o StrReplace(SubSeq(str, 2, Len(str)), old, new)

\* str[:-n]
DropLast(str, n) == SubSeq(str, 1, Len(str) - n)

(***************************************************************************)
(* The whole of get_uaf_mod, as ucp_extract calls it                       *)
(***************************************************************************)

\* The loop of get_uaf_mod run to its end.  An iteration that goes on from
\* the offset it started at (ModuleSize = 0) repeats forever: kind "hang".
RECURSIVE uaf_walk_all(_, _, _)
uaf_walk_all(buffer, uaf_off, uaf_all) ==
    LET w == uaf_walk(buffer, uaf_off, uaf_all)
    IN  IF w.kind = "raise" THEN [kind |-> "raise", uaf_all |-> <<>>]
        ELSE IF w.kind \in {"exit", "break"} THEN [kind |-> "ok", uaf_all |-> w.uaf_all]
        ELSE IF w.uaf_off = uaf_off THEN [kind |-> "hang", uaf_all |-> <<>>]
        ELSE uaf_walk_all(buffer, w.uaf_off, w.uaf_all)

\* get_uaf_mod(buffer, uaf_off)
get_uaf_mod(buffer, uaf_off) ==
    LET r == uaf_walk_all(buffer, uaf_off, <<>>)
    IN  IF r.kind = "ok" THEN [kind |-> "ok", uaf_all |-> nal_reorder(r.uaf_all)] ELSE r

(***************************************************************************)
(* ucp_extract and uaf_extract: state and file operations                  *)
(***************************************************************************)

DIS_HDR_LEN == 16

DIS_MOD_LEN == 290

UII_HDR_LEN == 16

\* The text of a printable name.
RECURSIVE ToStr(_)
ToStr(t) == IF t = <<>> THEN "" ELSE Chr(Head(t)) \o ToStr(Tail(t))

\* The locals of uaf_extract; efi is what became of the decompression:
\* "plain" (not compressed), "unsniffed" (is_efi_compressed said no),
\* "failed" (efi_decompress failed) or "ok".
NoMod ==
    [tag |-> <<>>, off |-> 0, uaf_name |-> <<>>, uaf_fext |-> <<>>, is_comp |-> FALSE,
     uaf_fname |-> "", temp_fname |-> "", uaf_data_raw |-> <<>>, efi |-> "none"]

\* A dictionary that a nested container takes over from the enclosing one.
nal_dict_inherited(enclosing_dict) == enclosing_dict

\* nal_dict = {} at the head of ucp_extract, whatever the caller's dictionary.
nal_dict_init(enclosing_dict) == EmptyDict

\* A call of ucp_extract(buffer, output_path) that has not started yet.
Frame(buffer, output_path) ==
    [buffer |-> buffer, output_path |-> output_path, extract_path |-> "",
     uaf_all |-> <<>>, idx |-> 1, nal_dict |-> EmptyDict, m |-> NoMod]

Top == stack[Len(stack)]

SetTop(f) == [stack EXCEPT ![Len(stack)] = f]

Ev(op, path) == [op |-> op, path |-> path, depth |-> Len(stack)]

\* open(path, 'wb').write(data)
FsWrite(files, path, data) ==
    [q \in DOMAIN files \cup {path} |-> IF q = path THEN data ELSE files[q]]

\* open(path, 'a').write(text)
FsAppend(files, path, text) ==
    FsWrite(files, path, IF path \in DOMAIN files THEN files[path] \o text ELSE text)

FsRemove(files, path) == [q \in DOMAIN files \ {path} |-> files[q]]

\* shutil.rmtree(path)
FsRmtree(files, path) == [q \in {x \in DOMAIN files : ~IsPrefix(path, x)} |-> files[q]]

\* An uncaught exception: the program ends.
Raise(what, files, events) ==
    /\ pc' = "crash"
    /\ fs' = files
    /\ trace' = Append(events, Ev("raise", what))
    /\ UNCHANGED <<stack, dirs, input>>

\* os.remove(path) as the last statement of a step, then on to pc next;
\* files, folders and events are what the step made of fs, dirs and trace
\* before.  Removing a file that is not there raises FileNotFoundError.
RemoveThen(path, next, files, folders, events) ==
    /\ dirs' = folders
    /\ IF path \in DOMAIN files
       THEN /\ fs' = FsRemove(files, path)
            /\ trace' = Append(events, Ev("remove", path))
            /\ pc' = next
       ELSE /\ fs' = files
            /\ trace' = Append(Append(events, Ev("remove-missing", path)),
                               Ev("raise", "FileNotFoundError"))
            /\ pc' = "crash"
    /\ UNCHANGED <<stack, input>>

(***************************************************************************)
(* SpecLocate: get_ami_ucp on buffers holding up to MaxCand signatures     *)
(***************************************************************************)

MaxCand == 2

\* Declared sizes: none, shorter than a header, a bare header, a header and
\* some content, and more than any buffer of the model holds.
LocSizes == {0, 1, 16, 24, 300}

LocPre == {<<>>, S("MZ")}

\* Between two signatures: nothing, or a broken-off tag.
LocGap == {<<>>, S("@UA")}

\* After the last signature: nothing, or a tag cut off inside its size field.
LocPost == {<<>>, S("@UAF") \o <<1>>}

LocBuild(pre, sizes, gap, post) ==
    pre \o Concat([i \in 1..Len(sizes) |-> UafHeaderBytes(TAG_UAF, sizes[i]) \o gap])
        \o post

LocBuffers ==
    {LocBuild(pre, sizes, gap, post) :
        pre \in LocPre, gap \in LocGap, post \in LocPost,
        sizes \in UNION {[1..k -> LocSizes] : k \in 0..MaxCand}}

LocInit ==
    /\ enum = Idle /\ nm = Idle /\ pay = Idle /\ MainIdle
    /\ loc \in {[pc |-> "loop", buffer |-> b, matches |-> PAT_AMI_UCP_finditer(b, 0),
              st |-> UcpNone, ret |-> <<>>] : b \in LocBuffers}

\* for uaf in PAT_AMI_UCP.finditer(buffer): one iteration
LocIterate ==
    /\ loc.pc = "loop"
    /\ loc.matches # <<>>
    /\ loc' = [loc EXCEPT !.st = ucp_select(loc.buffer, loc.st, Head(loc.matches)),
                          !.matches = Tail(loc.matches)]
    /\ UNCHANGED <<enum, nm, pay, mainVars>>

\* return uaf_hdr_off, uaf_buf_bin
LocReturn ==
    /\ loc.pc = "loop"
    /\ loc.matches = <<>>
    /\ loc' = [loc EXCEPT !.pc = "done",
                          !.ret = <<loc.st.uaf_hdr_off, loc.st.uaf_buf_bin>>]
    /\ UNCHANGED <<enum, nm, pay, mainVars>>

LocNext == LocIterate \/ LocReturn

SpecLocate == LocInit /\ [][LocNext]_vars

LocCands(b) == {PAT_AMI_UCP_finditer(b, 0)[k] : k \in DOMAIN PAT_AMI_UCP_finditer(b, 0)}

\* C1: get_ami_ucp returns the offset and the slice of a candidate whose size
\* field is the largest among all candidates; a lone container that lies
\* whole in the buffer is returned with a slice of exactly its declared size;
\* with no candidate it returns offset zero and the empty slice.  The loop of
\* LocIterate and the function get_ami_ucp agree.
C1_LargestCandidate ==
    loc.pc = "done" =>
        LET b == loc.buffer
            cands == LocCands(b)
        IN  /\ loc.ret = get_ami_ucp(b)
            /\ IF cands = {}
               THEN loc.ret = <<0, <<>>>>
               ELSE \E c \in cands :
                      /\ \A d \in cands : SizeField(b, d) <= SizeField(b, c)
                      /\ loc.ret = <<c, PySlice(b, c, c + SizeField(b, c))>>
                      /\ (cands = {c} /\ c + SizeField(b, c) <= Len(b))
                            => Len(loc.ret[2]) = SizeField(b, c)

\* Two candidates, the first declaring more than the second, the first not at
\* offset zero: the first one is returned.
C1_Witness ==
    /\ loc.pc = "done"
    /\ Cardinality(LocCands(loc.buffer)) = 2
    /\ \E c, d \in LocCands(loc.buffer) :
          /\ 0 < c /\ c < d
          /\ SizeField(loc.buffer, c) > SizeField(loc.buffer, d)
          /\ loc.ret[1] = c
          /\ Len(loc.ret[2]) = SizeField(loc.buffer, c)

(***************************************************************************)
(* SpecEnum: get_uaf_mod on containers of up to MaxChain modules           *)
(***************************************************************************)

MaxChain == 3

\* The loop of get_uaf_mod has no bound of its own: the model stops following
\* it once it has collected two descriptors more than any chain holds.
EnumCap == MaxChain + 2

EnumTags == {TAG_NAL, S("@UII"), S("@FOO")}

\* One module: its header, its sub-header and its payload.
ModuleBytes(tag, declared, comp, orig, payload) ==
    UafHeaderBytes(tag, declared) \o LE32(comp) \o LE32(orig) \o payload

\* An uncompressed module whose size fields agree with its payload.
PlainModule(tag, payload) ==
    ModuleBytes(tag, UAF_HDR_LEN + UAF_MOD_LEN + Len(payload), Len(payload),
                Len(payload), payload)

\* A container: its header, declaring the whole length, then the modules.
ContainerBytes(mods) ==
    UafHeaderBytes(TAG_UAF, UAF_HDR_LEN + Len(Concat(mods))) \o Concat(mods)

\* After the chain: nothing, a byte that is not '@', or an '@' with too few
\* bytes behind it to be a header.
EnumTrailers == [none |-> <<>>, junk |-> <<0, 7>>, stub |-> S("@X")]

\* The chain of tags built with sizes that agree, except that module zeroAt
\* (when not 0) declares size 0.
EnumBuffer(tags, zeroAt, trailer) ==
    ContainerBytes([i \in 1..Len(tags) |->
        IF i = zeroAt
        THEN ModuleBytes(tags[i], 0, 1, 1, <<i>>)
        ELSE PlainModule(tags[i], <<i>>)]) \o EnumTrailers[trailer]

\* The offset of module i of a chain whose sizes agree.
ChainOffset(i) == UAF_HDR_LEN + (i - 1) * (UAF_HDR_LEN + UAF_MOD_LEN + 1)

EnumInputs ==
    {[tags |-> t, zeroAt |-> z, trailer |-> tr] :
        t \in UNION {[1..n -> EnumTags] : n \in 0..MaxChain},
        z \in 0..MaxChain, tr \in DOMAIN EnumTrailers}

EnumInit ==
    /\ loc = Idle /\ nm = Idle /\ pay = Idle /\ MainIdle
    /\ enum \in {[pc |-> "while", input |-> in,
                  buffer |-> EnumBuffer(in.tags, in.zeroAt, in.trailer),
                  uaf_off |-> UAF_HDR_LEN, uaf_all |-> <<>>, ret |-> <<>>] :
                     in \in {x \in EnumInputs : x.zeroAt <= Len(x.tags)}}

\* while buffer[uaf_off] == 0x40: one iteration that goes on or breaks
EnumIterate ==
    /\ enum.pc = "while"
    /\ Len(enum.uaf_all) < EnumCap
    /\ LET w == uaf_walk(enum.buffer, enum.uaf_off, enum.uaf_all)
       IN  /\ w.kind \in {"next", "break"}
           /\ enum' = [enum EXCEPT !.uaf_off = w.uaf_off, !.uaf_all = w.uaf_all,
                                   !.pc = IF w.kind = "break" THEN "reorder" ELSE "while"]
    /\ UNCHANGED <<loc, nm, pay, mainVars>>

\* the while condition is false
EnumExit ==
    /\ enum.pc = "while"
    /\ uaf_walk(enum.buffer, enum.uaf_off, enum.uaf_all).kind = "exit"
    /\ enum' = [enum EXCEPT !.pc = "reorder"]
    /\ UNCHANGED <<loc, nm, pay, mainVars>>

\* IndexError of buffer[uaf_off], or the exception of get_struct
EnumRaise ==
    /\ enum.pc = "while"
    /\ uaf_walk(enum.buffer, enum.uaf_off, enum.uaf_all).kind = "raise"
    /\ enum' = [enum EXCEPT !.pc = "raise"]
    /\ UNCHANGED <<loc, nm, pay, mainVars>>

\* the @NAL reordering and the return
EnumReturn ==
    /\ enum.pc = "reorder"
    /\ enum' = [enum EXCEPT !.pc = "done", !.ret = nal_reorder(enum.uaf_all)]
    /\ UNCHANGED <<loc, nm, pay, mainVars>>

EnumNext == EnumIterate \/ EnumExit \/ EnumRaise \/ EnumReturn

SpecEnum == EnumInit /\ [][EnumNext]_vars

\* A chain of N >= 1 modules whose size fields agree, ending at the end of the
\* buffer or before a byte that is not '@'.
EnumConsistent ==
    /\ enum.pc # "idle"
    /\ enum.input.zeroAt = 0
    /\ enum.input.trailer \in {"none", "junk"}
    /\ Len(enum.input.tags) >= 1

\* The walk of a consistent chain never raises, and returns one descriptor
\* per module, with the module's tag and offset; without an @NAL module in
\* chain order; with one, the first @NAL module at position p (counted from
\* 1) and the others in chain order.
EnumReturns(p) ==
    LET tags == enum.input.tags
        N    == Len(tags)
        ret  == enum.ret
        nals == {i \in 1..N : tags[i] = TAG_NAL}
    IN  /\ enum.pc # "raise"
        /\ enum.pc = "done" =>
            /\ Len(ret) = N
            /\ \A i \in 1..N : \E j \in 1..N :
                  /\ ret[j].off = ChainOffset(i)
                  /\ ret[j].tag = tags[i]
                  /\ ret[j].hdr.ModuleSize = UAF_HDR_LEN + UAF_MOD_LEN + 1
            /\ IF nals = {}
               THEN \A i \in 1..N : ret[i].off = ChainOffset(i)
               ELSE LET k == CHOOSE i \in nals : \A j \in nals : i <= j
                    IN  /\ p <= N
                        /\ ret[p].tag = TAG_NAL
                        /\ ret[p].off = ChainOffset(k)
                        /\ \A i, j \in (1..N) \ {p} : i < j => ret[i].off < ret[j].off

\* C2 as stated: N descriptors in chain order, except that the @NAL module is
\* at index 1 of the list (the second place) for every N >= 1.
C2_NalAtIndexOne == EnumConsistent => EnumReturns(2)

\* C2, amended: N descriptors in chain order, except that the first @NAL
\* module is at index 1 when N >= 2 and at index 0 when it is the only
\* module; the other modules keep their relative order.
C2_NalAtIndexOneIfTwo == EnumConsistent => EnumReturns(Min(2, Len(enum.input.tags)))

\* Three modules with the naming list last in the chain: it is returned
\* second.
C2_Witness ==
    /\ EnumConsistent
    /\ enum.pc = "done"
    /\ Len(enum.input.tags) = 3
    /\ enum.input.tags[3] = TAG_NAL
    /\ enum.input.tags[1] # TAG_NAL /\ enum.input.tags[2] # TAG_NAL
    /\ enum.ret[2].tag = TAG_NAL
    /\ enum.ret[3].off = ChainOffset(2)

\* C10: every evaluation of the loop of get_uaf_mod reads inside the slice
\* (nothing raises) and every iteration that goes on has moved to a later
\* offset, so the walk ends on a finite slice whatever the declared sizes.
C10_WalkAdvances ==
    [][enum.pc = "while" =>
          /\ enum'.pc # "raise"
          /\ enum'.pc = "while" => enum'.uaf_off > enum.uaf_off]_vars

(***************************************************************************)
(* SpecName: the name uaf_extract gives a module                           *)
(***************************************************************************)

\* Tags: unknown ones, the @ROM sentinel, the six prefix families (one tag
\* cut short by a NUL), registry tags (one of them inside the @ME family).
NameTags ==
    {S("@FOO"), S("@ZZZ"), S("@ROM"), S("@R01"), S("@S02"), S("@DR1"), S("@DS1"),
     S("@EC1"), S("@ME1"), S("@R0"), S("@MEC"), S("@NAL"), S("@DIS"), S("@UII")}

\* Base names a naming list can give: with an extension, with two, without
\* one, the tag itself.
NameValues(tag) == {S("custom.bin"), S("x.tar.gz"), S("custom"), tag}

\* Naming dictionaries: empty, or with an entry for the tag and perhaps one
\* for another tag.
NameDicts(tag) ==
    {EmptyDict}
    \cup {[t \in {tag} |-> v] : v \in NameValues(tag)}
    \cup {[t \in {tag, S("@BAR")} |-> IF t = tag THEN v ELSE S("b.bin")] :
             v \in NameValues(tag)}
    \cup {[t \in {S("@BAR")} |-> S("b.bin")]}

NameInit ==
    /\ loc = Idle /\ enum = Idle /\ pay = Idle /\ MainIdle
    /\ nm \in {[pc |-> "call", uaf_tag |-> t, nal_dict |-> d,
                uaf_name |-> <<>>, uaf_fext |-> <<>>] :
                  t \in NameTags, d \in UNION {NameDicts(x) : x \in NameTags}}

\* lines 250-259: uaf_name
NameResolve ==
    /\ nm.pc = "call"
    /\ nm' = [nm EXCEPT !.pc = "named", !.uaf_name = uaf_name_of(nm.uaf_tag, nm.nal_dict)]
    /\ UNCHANGED <<loc, enum, pay, mainVars>>

\* line 261: uaf_fext
NameExtension ==
    /\ nm.pc = "named"
    /\ nm' = [nm EXCEPT !.pc = "done", !.uaf_fext = uaf_fext_of(nm.uaf_name, nm.uaf_tag)]
    /\ UNCHANGED <<loc, enum, pay, mainVars>>

NameNext == NameResolve \/ NameExtension

SpecName == NameInit /\ [][NameNext]_vars

\* os.path.splitext(name)[1] is not empty: a dot that is not a leading one.
HasExtension(name) ==
    \E i \in DOMAIN name : name[i] = Ord(".") /\ \E j \in 1..(i - 1) : name[j] # Ord(".")

\* The six prefix families: prefix, stem, extension.
NameFamilies ==
    {<<"@R0", "BIOS_0", ".bin">>, <<"@S0", "BIOS_0", ".sig">>, <<"@DR", "DROM_0", ".bin">>,
     <<"@DS", "DROM_0", ".sig">>, <<"@EC", "EC_0", ".bin">>, <<"@ME", "ME_0", ".bin">>}

\* The priority table of the claim, first match wins; dictExt(name) is the
\* extension a name taken from the naming dictionary gets.
NameTable(tag, dict, dictExt(_)) ==
    IF tag \in DOMAIN dict THEN dict[tag] \o dictExt(dict[tag])
    ELSE IF \E i \in DOMAIN UAF_TAG_ROWS : S(UAF_TAG_ROWS[i][1]) = tag
    THEN LET i == CHOOSE k \in DOMAIN UAF_TAG_ROWS : S(UAF_TAG_ROWS[k][1]) = tag
         IN  S(UAF_TAG_ROWS[i][2])
    ELSE IF tag = S("@ROM") THEN S("BIOS.bin")
    ELSE IF \E f \in NameFamilies : StartsWith(tag, S(f[1]))
    THEN LET f == CHOOSE g \in NameFamilies : StartsWith(tag, S(g[1]))
         IN  S(f[2]) \o SubSeq(tag, 4, Len(tag)) \o S(f[3])
    ELSE tag \o S(".bin")

ExtUnlessHasOne(name) == IF HasExtension(name) THEN <<>> ELSE S(".bin")

\* C4 as stated: the output name is the result of the priority table, where
\* a name from the naming dictionary gets '.bin' unless it already carries an
\* extension.
C4_PriorityTable ==
    nm.pc = "done" =>
        nm.uaf_name \o nm.uaf_fext = NameTable(nm.uaf_tag, nm.nal_dict, ExtUnlessHasOne)

\* C4, amended: the same table, except that a name from the naming
\* dictionary is used as it is, whether or not it carries an extension, and
\* gets '.bin' only when it is the tag text itself.
C4_PriorityTableAmended ==
    nm.pc = "done" =>
        nm.uaf_name \o nm.uaf_fext =
            NameTable(nm.uaf_tag, nm.nal_dict,
                      LAMBDA name : IF name = nm.uaf_tag THEN S(".bin") ELSE <<>>)

\* A registry tag of the @ME family that the naming list renames to a name
\* without extension: the dictionary wins, and no extension is added.
C4_Witness ==
    /\ nm.pc = "done"
    /\ nm.uaf_tag = S("@MEC")
    /\ nm.uaf_tag \in DOMAIN nm.nal_dict
    /\ nm.nal_dict[nm.uaf_tag] = S("custom")
    /\ nm.uaf_name \o nm.uaf_fext = S("custom")

(***************************************************************************)
(* SpecPayload: the payload uaf_extract prepares for one module            *)
(***************************************************************************)

MaxRaw == 3

\* The declared ModuleSize: the true size, one byte less, a size that ends
\* inside the sub-header, and a size that runs into the next module.
PayDeclared(r) ==
    {UAF_HDR_LEN + UAF_MOD_LEN + r, UAF_HDR_LEN + UAF_MOD_LEN + r - 1,
     UAF_HDR_LEN + 4, UAF_HDR_LEN + UAF_MOD_LEN + r + 2}

\* A container whose first module is the one under test, with payload bytes
\* 11, 12, ..., followed by a second module.
PayBuffer(declared, comp, orig, r) ==
    ContainerBytes(<<ModuleBytes(S("@FOO"), declared, comp, orig, [i \in 1..r |-> 10 + i]),
                     PlainModule(S("@BAR"), <<9>>)>>)

PayInit ==
    /\ loc = Idle /\ enum = Idle /\ nm = Idle /\ MainIdle
    /\ pay \in {[pc |-> "call", buffer |-> PayBuffer(d, c, o, r), uaf_off |-> UAF_HDR_LEN,
                 raw_len |-> r, uaf_data_mod |-> <<>>, uaf_data_raw |-> <<>>,
                 uaf_mod |-> [CompressSize |-> c, OriginalSize |-> o], out |-> <<>>] :
                    d \in UNION {PayDeclared(r) : r \in 0..MaxRaw}, c \in 0..(MaxRaw + 1),
                    o \in 0..(MaxRaw + 1), r \in 0..MaxRaw}

\* lines 236-248: the slices and the sub-header
PaySlice ==
    /\ pay.pc = "call"
    /\ LET uaf_hdr == UafHeader(pay.buffer, pay.uaf_off)
       IN  pay' = [pay EXCEPT
                !.pc = "sliced",
                !.uaf_data_mod = uaf_data_mod_of(pay.buffer, pay.uaf_off, uaf_hdr),
                !.uaf_data_raw = uaf_data_raw_of(pay.buffer, pay.uaf_off, uaf_hdr),
                !.uaf_mod = UafModule(pay.buffer, pay.uaf_off + UAF_HDR_LEN)]
    /\ UNCHANGED <<loc, enum, nm, mainVars>>

\* lines 294-303: the adjustment
PayAdjust ==
    /\ pay.pc = "sliced"
    /\ pay' = [pay EXCEPT !.pc = "done",
                          !.out = uaf_adjust(pay.uaf_mod, pay.uaf_data_mod, pay.uaf_data_raw)]
    /\ UNCHANGED <<loc, enum, nm, mainVars>>

PayNext == PaySlice \/ PayAdjust

SpecPayload == PayInit /\ [][PayNext]_vars

\* The sub-header as the module stores it.
PaySubHeader == LE32(pay.uaf_mod.CompressSize) \o LE32(pay.uaf_mod.OriginalSize)

\* The compressed case of C9: the sub-header bytes sub, then the raw payload,
\* then zeros up to CompressSize bytes behind the sub-header when the raw
\* payload is shorter than that.
PayCompressedIs(sub) ==
    LET raw == pay.uaf_data_raw
        c   == pay.uaf_mod.CompressSize
    IN  /\ pay.out = sub \o raw \o Zeros(Max(0, c - Len(raw)))
        /\ Len(pay.out) - Len(sub) >= c

MaxMods == 3

TAG_UII == S("@UII")

TAG_DIS == S("@DIS")

TAG_INS == S("@INS")

CRLF == <<13, 10>>

\* The literal head of PAT_AMI_PFAT (common.patterns).
PFAT_SIG == S("_AMIPFAT")

\* get_ami_pfat(buffer): whether the PFAT signature is found in the buffer.
get_ami_pfat_match(buffer) ==
    \E i \in 0..(Len(buffer) - Len(PFAT_SIG)) :
        PySlice(buffer, i, i + Len(PFAT_SIG)) = PFAT_SIG

\* The container nested in a module payload: one module and a naming list
\* that names it.
NestedBytes ==
    ContainerBytes(<<PlainModule(S("@BAR"), <<7>>),
                     PlainModule(TAG_NAL, S("@BAR:in/n.bin"))>>)

\* A UiiHeader (UIISize 18, InfoSize 16) and a two-byte description.
UiiPayload == <<18, 0, 0, 0, 0, 0, 0, 0, 16, 0, 3, 1, 4, 1, 2, 5>> \o S("hi")

\* A module whose CompressSize and OriginalSize differ.
PackedModule(tag, payload) ==
    ModuleBytes(tag, UAF_HDR_LEN + UAF_MOD_LEN + Len(payload), Len(payload),
                Len(payload) + 6, payload)

\* The modules input containers are built from.
Lib(name) ==
    CASE name = "foo"    -> PlainModule(S("@FOO"), <<1, 2, 3>>)
      [] name = "nal"    -> PlainModule(TAG_NAL,
                                S("@FOO:out/custom.bin") \o CRLF \o S("@BAR:o.bin") \o <<10>>)
      [] name = "nalbad" -> PlainModule(TAG_NAL,
                                S("@FOO:a.bin") \o <<10>> \o S("BAD") \o <<10>> \o S("@BAR:b.bin"))
      [] name = "uii"    -> PlainModule(TAG_UII, UiiPayload)
      [] name = "nest0"  -> PlainModule(S("@AMI"), NestedBytes)
      [] name = "nest1"  -> PlainModule(S("@AMI"), <<0>> \o NestedBytes)
      [] name = "dis_n"  -> PlainModule(TAG_DIS, Zeros(DIS_HDR_LEN) \o NestedBytes)
      [] name = "foo_c"  -> PackedModule(S("@FOO"), <<21, 22, 23>>)
      [] name = "dis_c"  -> PackedModule(TAG_DIS, <<1, 2, 3, 4, 5, 6, 7, 8>>)
      [] name = "ins_c"  -> PackedModule(TAG_INS, <<55, 122>>)
      [] name = "uii_c"  -> PackedModule(TAG_UII, UiiPayload)
      [] name = "pfat"   -> PlainModule(S("@PFT"), PFAT_SIG)

\* Containers are chains of up to MaxMods modules of one family.
Families ==
    {{"foo", "nal", "nalbad", "uii", "uii_c", "pfat"}, {"foo", "nal", "nest0", "nest1", "dis_n"},
     {"foo_c", "dis_c", "ins_c"}}

MainInputs ==
    UNION {UNION {[1..n -> fam] : n \in 1..MaxMods} : fam \in Families}

\* What efi_decompress can write: some bytes, or a container behind a byte.
DecOutputs == {<<1, 2>>, <<0>> \o NestedBytes}

\* ucp_extract's output_path argument for the input file.
OutputPath == "out/fw.exe"

Init ==
    /\ loc = Idle /\ enum = Idle /\ nm = Idle /\ pay = Idle
    /\ pc = "main" /\ stack = <<>> /\ fs = <<>> /\ dirs = {} /\ trace = <<>>
    /\ input \in {[mods |-> mods,
                   file |-> pre \o ContainerBytes([i \in DOMAIN mods |-> Lib(mods[i])])] :
                      mods \in MainInputs, pre \in {<<>>, S("MZ")}}

\* Lines 498-510: the container is located in the input file.
Main ==
    /\ pc = "main"
    /\ LET r == get_ami_ucp(input.file)
       IN  IF r[1] = 0
           THEN /\ pc' = "done"
                /\ trace' = Append(trace, Ev("not-ucp", ""))
                /\ UNCHANGED stack
           ELSE /\ pc' = "ucp_enter"
                /\ stack' = <<Frame(r[2], OutputPath)>>
                /\ trace' = Append(trace, Ev("call", OutputPath))
    /\ UNCHANGED <<fs, dirs, input, loc, enum, nm, pay>>

\* Lines 201-225: the head of ucp_extract.
UcpEnter ==
    /\ pc = "ucp_enter"
    /\ LET f == Top
           extract_path == f.output_path \o "_extracted/"
           enclosing == IF Len(stack) > 1 THEN stack[Len(stack) - 1].nal_dict ELSE EmptyDict
           files == FsRmtree(fs, extract_path)
       IN  /\ dirs' = {d \in dirs : ~IsPrefix(extract_path, d)} \cup {extract_path}
           /\ fs' = files
           /\ IF ~get_struct_fits(f.buffer, 0, UAF_HDR_LEN)
              THEN /\ pc' = "crash"
                   /\ trace' = Append(trace, Ev("raise", "get_struct UafHeader"))
                   /\ UNCHANGED stack
              ELSE LET r == get_uaf_mod(f.buffer, UAF_HDR_LEN)
                   IN  IF r.kind = "ok"
                       THEN /\ pc' = "for"
                            /\ stack' = SetTop([f EXCEPT !.extract_path = extract_path,
                                                         !.uaf_all = r.uaf_all,
                                                         !.nal_dict = nal_dict_init(enclosing)])
                            /\ UNCHANGED trace
                       ELSE /\ pc' = IF r.kind = "hang" THEN "hang" ELSE "crash"
                            /\ trace' = Append(trace, Ev(r.kind, "get_uaf_mod"))
                            /\ UNCHANGED stack
    /\ UNCHANGED <<input, loc, enum, nm, pay>>

\* Lines 231-307: uaf_extract up to the module file.
ModBegin ==
    /\ pc = "for"
    /\ Top.idx <= Len(Top.uaf_all)
    /\ LET f        == Top
           mod_info == f.uaf_all[f.idx]
           uaf_tag  == mod_info.tag
           uaf_off  == mod_info.off
           data_mod == uaf_data_mod_of(f.buffer, uaf_off, mod_info.hdr)
           data_raw == uaf_data_raw_of(f.buffer, uaf_off, mod_info.hdr)
           uaf_mod  == UafModule(f.buffer, uaf_off + UAF_HDR_LEN)
           is_comp  == is_comp_of(uaf_mod)
           uaf_name == uaf_name_of(uaf_tag, f.nal_dict)
           uaf_fext == uaf_fext_of(uaf_name, uaf_tag)
           uaf_fname == f.extract_path
                          \o safe_name(uaf_name \o (IF is_comp THEN S(".temp") ELSE uaf_fext))
           uii_txt  == DropLast(uaf_fname, 4) \o ".txt"
           adjusted == uaf_adjust(uaf_mod, data_mod, data_raw)
           m == [tag |-> uaf_tag, off |-> uaf_off, uaf_name |-> uaf_name,
                 uaf_fext |-> uaf_fext, is_comp |-> is_comp, uaf_fname |-> uaf_fname,
                 temp_fname |-> uaf_fname, uaf_data_raw |-> adjusted, efi |-> "none"]
       IN  IF ~get_struct_fits(f.buffer, uaf_off + UAF_HDR_LEN, UAF_MOD_LEN)
           THEN Raise("get_struct UafModule", fs, trace)
           ELSE IF uaf_tag = TAG_UII /\ ~get_struct_fits(data_raw, 0, UII_HDR_LEN)
           THEN Raise("get_struct UiiHeader", fs, trace)
           ELSE /\ pc' = "mod_efi"
                /\ stack' = SetTop([f EXCEPT !.m = m])
                /\ IF uaf_tag = TAG_UII
                   THEN /\ fs' = FsAppend(fs, uii_txt, S("[UII]"))
                        /\ trace' = Append(trace, Ev("append", uii_txt))
                   ELSE /\ fs' = FsWrite(fs, uaf_fname, adjusted)
                        /\ trace' = Append(trace, Ev("write", uaf_fname))
                /\ UNCHANGED <<dirs, input>>
    /\ UNCHANGED <<loc, enum, nm, pay>>

\* Lines 309-318: the module is not compressed ("plain"), or it is and
\* is_efi_compressed says no or efi_decompress fails ("failed").
ModEfiNone ==
    /\ pc = "mod_efi"
    /\ stack' = SetTop([Top EXCEPT !.m.efi = IF Top.m.is_comp THEN "failed" ELSE "plain"])
    /\ pc' = "mod_dis"
    /\ UNCHANGED <<fs, dirs, trace, input, loc, enum, nm, pay>>

\* Lines 309-318: efi_decompress succeeds on the temporary file and writes
\* the decompressed file.
ModEfiDone ==
    /\ pc = "mod_efi"
    /\ Top.m.is_comp
    /\ Top.m.uaf_fname \in DOMAIN fs
    /\ \E data \in DecOutputs :
          LET m == Top.m
              dec_fname == StrReplace(m.uaf_fname, ".temp", ToStr(m.uaf_fext))
          IN  /\ fs' = FsRemove(FsWrite(fs, dec_fname, data), m.uaf_fname)
              /\ trace' = trace \o <<Ev("write", dec_fname), Ev("remove", m.uaf_fname)>>
              /\ stack' = SetTop([Top EXCEPT !.m.efi = "ok", !.m.uaf_data_raw = data,
                                             !.m.uaf_fname = dec_fname])
    /\ pc' = "mod_dis"
    /\ UNCHANGED <<dirs, input, loc, enum, nm, pay>>

\* Lines 325-354: the @DIS decoder.
ModDis ==
    /\ pc = "mod_dis"
    /\ LET m == Top.m
           raw == m.uaf_data_raw
           dis_txt == DropLast(m.uaf_fname, 3) \o "txt"
       IN  IF Len(raw) > 0 /\ m.tag = TAG_DIS
           THEN IF ~get_struct_fits(raw, 0, DIS_HDR_LEN)
                THEN Raise("get_struct DisHeader", fs, trace)
                ELSE LET EntryCount == FromLE(PySlice(raw, 2, 4))
                         dis_data == PyFrom(raw, DIS_HDR_LEN)
                         fit == Min(EntryCount, Len(dis_data) \div DIS_MOD_LEN)
                         text == S("[DIS]") \o Concat([i \in 1..fit |-> S("[ENT]")])
                         files == FsAppend(fs, dis_txt, text)
                         events == Append(trace, Ev("append", dis_txt))
                     IN  IF fit < EntryCount
                         THEN Raise("get_struct DisModule", files, events)
                         ELSE RemoveThen(m.uaf_fname, "mod_nal", files, dirs, events)
           ELSE /\ pc' = "mod_nal"
                /\ UNCHANGED <<stack, fs, dirs, trace, input>>
    /\ UNCHANGED <<loc, enum, nm, pay>>

\* Lines 356-368: the @NAL decoder.
ModNal ==
    /\ pc = "mod_nal"
    /\ LET m == Top.m
       IN  IF is_nal(m.tag, m.uaf_data_raw)
           THEN LET r == nal_records(nal_info_of(m.uaf_data_raw), Top.nal_dict)
                IN  /\ stack' = SetTop([Top EXCEPT !.nal_dict = r.nal_dict])
                    /\ pc' = IF r.ok THEN "mod_ins" ELSE "crash"
                    /\ trace' = IF r.ok THEN Append(trace, Ev("nal", m.uaf_fname))
                                ELSE Append(trace, Ev("raise", "ValueError"))
           ELSE /\ pc' = "mod_ins"
                /\ UNCHANGED <<stack, trace>>
    /\ UNCHANGED <<fs, dirs, input, loc, enum, nm, pay>>

\* Lines 370-377: not an @INS module, or is_7z_supported says no, or
\* a7z_decompress fails.
ModInsNone ==
    /\ pc = "mod_ins"
    /\ pc' = "mod_pfat"
    /\ UNCHANGED <<stack, fs, dirs, trace, input, loc, enum, nm, pay>>

\* Lines 370-377: the 7z SFX archive of an @INS module is extracted.
ModInsDone ==
    /\ pc = "mod_ins"
    /\ Top.m.tag = TAG_INS
    /\ Top.m.uaf_fname \in DOMAIN fs
    /\ LET ins_dir == Top.extract_path \o safe_name(Top.m.tag \o S("_nested-SFX"))
       IN  RemoveThen(Top.m.uaf_fname, "mod_pfat", fs, dirs \cup {ins_dir},
                      Append(trace, Ev("a7z", ins_dir)))
    /\ UNCHANGED <<loc, enum, nm, pay>>

\* Lines 379-387: the PFAT image of the payload is unpacked.
ModPfat ==
    /\ pc = "mod_pfat"
    /\ LET pfat_dir == Top.extract_path \o safe_name(Top.m.uaf_name)
       IN  IF get_ami_pfat_match(Top.m.uaf_data_raw)
           THEN RemoveThen(Top.m.uaf_fname, "mod_nested", fs, dirs \cup {pfat_dir},
                           Append(trace, Ev("pfat", pfat_dir)))
           ELSE /\ pc' = "mod_nested"
                /\ UNCHANGED <<stack, fs, dirs, trace, input>>
    /\ UNCHANGED <<loc, enum, nm, pay>>

\* A recursive call handed the buffer of the enclosing call.
nested_buffer_enclosing(buffer, nested_uaf_bin) == buffer

\* Line 401: the buffer argument of the recursive call is the slice that
\* get_ami_ucp cut out of the module's final payload.
nested_buffer(buffer, nested_uaf_bin) == nested_uaf_bin

\* Lines 394-401: the nested container, and the recursive call.
ModNested ==
    /\ pc = "mod_nested"
    /\ LET r == get_ami_ucp(Top.m.uaf_data_raw)
           uaf_dir == Top.extract_path \o safe_name(Top.m.tag \o S("_nested-UCP"))
       IN  IF r[1] # 0
           THEN /\ pc' = "ucp_enter"
                /\ stack' = Append(stack, Frame(nested_buffer(Top.buffer, r[2]), uaf_dir))
                /\ trace' = Append(trace, Ev("call", uaf_dir))
           ELSE /\ pc' = "mod_ret"
                /\ UNCHANGED <<stack, trace>>
    /\ UNCHANGED <<fs, dirs, input, loc, enum, nm, pay>>

\* Lines 227-228: the loop of ucp_extract is over, ucp_extract returns.
UcpReturn ==
    /\ pc = "for"
    /\ Top.idx > Len(Top.uaf_all)
    /\ stack' = SubSeq(stack, 1, Len(stack) - 1)
    /\ pc' = IF Len(stack) = 1 THEN "done" ELSE "mod_remove"
    /\ trace' = Append(trace, Ev("return", Top.output_path))
    /\ UNCHANGED <<fs, dirs, input, loc, enum, nm, pay>>

\* Line 403: the raw file of the nested container is deleted.
ModRemove ==
    /\ pc = "mod_remove"
    /\ RemoveThen(Top.m.uaf_fname, "mod_ret", fs, dirs, trace)
    /\ UNCHANGED <<loc, enum, nm, pay>>

\* Line 405 and line 228: uaf_extract returns, the loop goes on.
ModReturn ==
    /\ pc = "mod_ret"
    /\ stack' = SetTop([Top EXCEPT !.idx = @ + 1, !.m = NoMod])
    /\ pc' = "for"
    /\ UNCHANGED <<fs, dirs, trace, input, loc, enum, nm, pay>>

Next ==
    \/ Main \/ UcpEnter \/ ModBegin \/ ModEfiNone \/ ModEfiDone \/ ModDis \/ ModNal
    \/ ModInsNone \/ ModInsDone \/ ModPfat \/ ModNested
    \/ UcpReturn \/ ModRemove \/ ModReturn

Spec == Init /\ [][Next]_vars

\* The modules of the input container, by their names in Lib.
InputHas(name) == \E i \in DOMAIN input.mods : input.mods[i] = name

\* The whole run is over and the input held a container.
Extracted == pc = "done" /\ trace # <<>> /\ trace[1].op = "call"

RootPath == OutputPath \o "_extracted/"

\* C3 (as stated): a container with a well-formed @NAL module that maps
\* @FOO to out/custom.bin, and a module @FOO, is extracted to a file
\* custom.bin holding the payload of @FOO, and to no file @FOO.bin,
\* whatever the order of the modules.
C3_NamedFromList ==
    (Extracted /\ InputHas("nal") /\ InputHas("foo") /\ ~InputHas("nalbad"))
        => /\ (RootPath \o "custom.bin") \in DOMAIN fs
           /\ fs[RootPath \o "custom.bin"] = <<1, 2, 3>>
           /\ (RootPath \o "@FOO.bin") \notin DOMAIN fs

\* Some position of the payload holds a container signature.
HoldsContainer(data) == \E i \in 0..(Len(data) - 8) : PAT_AMI_UCP_match(data, i)

\* C5 (as stated): when uaf_extract returns for a module whose final payload
\* holds a nested container at any position, the first byte included, the
\* nested container was extracted to the module's nested-UCP directory and
\* the module's own file is gone.
C5_NestedAnywhere ==
    (pc = "mod_ret" /\ HoldsContainer(Top.m.uaf_data_raw))
        => /\ (Top.extract_path \o safe_name(Top.m.tag \o S("_nested-UCP")) \o "_extracted/")
                  \in dirs
           /\ Top.m.uaf_fname \notin DOMAIN fs

\* The records of a @NAL payload that have a separator, as <<tag, name>>.
WellFormed(nal_info) ==
    {<<Split(nal_info[i], 58)[1], Basename(Split(nal_info[i], 58)[2])>> :
        i \in {j \in DOMAIN nal_info : FindChar(nal_info[j], 58) # 0}}

HasMalformed(nal_info) == \E i \in DOMAIN nal_info : FindChar(nal_info[i], 58) = 0

\* C6 (as stated): the @NAL decoder, on a payload with a record that has no
\* separator, goes on to the next step of the module with a dictionary that
\* holds every well-formed record of the payload.
C6_MalformedRecordConfined ==
    [][(/\ pc = "mod_nal"
        /\ is_nal(Top.m.tag, Top.m.uaf_data_raw)
        /\ HasMalformed(nal_info_of(Top.m.uaf_data_raw)))
          => /\ pc' = "mod_ins"
             /\ \A r \in WellFormed(nal_info_of(Top.m.uaf_data_raw)) :
                   /\ r[1] \in DOMAIN stack'[Len(stack')].nal_dict
                   /\ stack'[Len(stack')].nal_dict[r[1]] = r[2]]_vars

\* C7 (as stated): a module flagged compressed whose decompression failed or
\* was not attempted is processed to its end, and its file is then still
\* there under its temporary name.
C7_TempKept ==
    (pc \in {"mod_ret", "crash"} /\ stack # <<>> /\ Top.m.is_comp /\ Top.m.efi = "failed")
        => /\ pc = "mod_ret"
           /\ Top.m.temp_fname \in DOMAIN fs

\* The entries of the @NAL modules of the container of a frame.
OwnEntries(f) ==
    UNION {LET d == f.uaf_all[i]
               raw == uaf_data_raw_of(f.buffer, d.off, d.hdr)
               own == nal_records(nal_info_of(raw), EmptyDict).nal_dict
           IN  {<<t, own[t]>> : t \in DOMAIN own} :
           i \in {j \in DOMAIN f.uaf_all : f.uaf_all[j].tag = TAG_NAL}}

\* C8: every call of ucp_extract starts with an empty dictionary, the
\* dictionary of a call holds only entries of the @NAL modules of its own
\* container, and no step changes the dictionary of an enclosing call.
C8_DictionaryScoped ==
    /\ []((pc = "for" /\ Top.idx = 1) => Top.nal_dict = EmptyDict)
    /\ [](\A k \in DOMAIN stack :
             \A t \in DOMAIN stack[k].nal_dict :
                 <<t, stack[k].nal_dict[t]>> \in OwnEntries(stack[k]))
    /\ [][\A k \in 1..(Len(stack) - 1) :
             k <= Len(stack') => stack'[k].nal_dict = stack[k].nal_dict]_vars

\* A nested container is being extracted, its dictionary and the enclosing
\* one are both filled, and they differ.
C8_Witness ==
    /\ Len(stack) = 2
    /\ stack[1].nal_dict # EmptyDict
    /\ stack[2].nal_dict # EmptyDict
    /\ stack[1].nal_dict # stack[2].nal_dict

\* C11 (as stated): the buffer of every nested call of ucp_extract is
\* strictly shorter than the buffer of the call that encloses it, whether
\* the module that holds it was decompressed or not.
C11_StrictlySmaller ==
    \A k \in 2..Len(stack) : Len(stack[k].buffer) < Len(stack[k - 1].buffer)

\* C11, amended: the buffer of a nested call is strictly shorter than the
\* buffer of the enclosing call when the module that holds it is not flagged
\* compressed, and it is always a slice of that module's final payload that
\* starts behind the payload's first byte.
C11_StrictlySmallerUncompressed ==
    \A k \in 2..Len(stack) :
        LET outer == stack[k - 1]
            inner == stack[k]
        IN  /\ ~outer.m.is_comp => Len(inner.buffer) < Len(outer.buffer)
            /\ Len(inner.buffer) < Len(outer.m.uaf_data_raw)
            /\ \E i \in 1..(Len(outer.m.uaf_data_raw) - Len(inner.buffer)) :
                  PySlice(outer.m.uaf_data_raw, i, i + Len(inner.buffer)) = inner.buffer

\* A nested call is running on the container of an uncompressed module, and
\* its buffer is shorter than the enclosing one.
C11_Witness ==
    /\ Len(stack) = 2
    /\ pc = "for"
    /\ ~stack[1].m.is_comp
    /\ stack[1].m.tag = S("@AMI")
    /\ Len(stack[2].buffer) < Len(stack[1].buffer)
    /\ Len(stack[2].uaf_all) = 2

\* C12 (as stated): every deletion of a module's output file finds the file,
\* so no deletion step raises and ends the run before the sibling modules.
C12_DeleteExisting ==
    /\ \A i \in DOMAIN trace : trace[i].op # "remove-missing"
    /\ ~(pc = "crash" /\ trace[Len(trace)] = Ev("raise", "FileNotFoundError"))

====
